---- MODULE Spec2Model ----
(***************************************************************************)
(* Fast-Newman greedy modularity maximisation (FastNewman.fit) together    *)
(* with its two helpers, MaxHeap and CommunityManager.                     *)
(*                                                                         *)
(* Numbers.  Counts, ids and degrees are integers.  Every value the code   *)
(* obtains by a division (totalEdges, deltaQ, q, currentQ) is modelled as  *)
(* an exact rational [num, den] in lowest terms with den > 0; den = 0      *)
(* stands for the non-finite IEEE results: 0/0 is NaN, +-1/0 is            *)
(* +-Infinity.  Rounding of finite doubles and the sign of zero are not    *)
(* modelled.                                                               *)
(*                                                                         *)
(* Arrays are sequences; index i of the code is position i+1 here.  A JS   *)
(* Map is a sequence of [k, v] entries in insertion order, because the     *)
(* code iterates Maps and the heap layout depends on that order.           *)
(***************************************************************************)
EXTENDS Integers, Sequences, FiniteSets, TLC

\* ------------------------------------------------------------------ bounds
\* largest node count of the simple graphs (0/1, zero diagonal) given to fit
MaxN == 4
\* largest node count of the symmetric multigraphs (loops, multiplicities)
MaxMultiN == 2
\* largest entry (edge multiplicity) of a multigraph matrix
MaxWeight == 2
\* largest explicit value of the option numberOfCommunities
MaxTarget == 2
\* number of fit calls made on one instance in the re-fit specification
MaxCalls == 2
\* largest row count of the matrices whose rows need not have that length
MaxShapeN == 3
\* number of distinct node values an edge list may use
MaxLabels == 2
\* largest length of an edge list given to fromEdgeList
MaxEdges == 3
\* largest node count of a CommunityManager constructed on its own
MaxManagerN == 3
\* largest node degree given to a CommunityManager constructed on its own
MaxDegree == 2
\* largest gain of an item inserted into a MaxHeap used on its own
MaxGain == 1
\* number of insert calls made on a MaxHeap used on its own
MaxInserts == 4
\* number of extractMax calls made on it while it is empty
MaxMisses == 1

\* ------------------------------------------------------- number arithmetic
Abs(x) == IF x < 0 THEN -x ELSE x

Sign(x) == IF x < 0 THEN -1 ELSE IF x > 0 THEN 1 ELSE 0

RECURSIVE GCD(_, _)
GCD(a, b) == IF b = 0 THEN a ELSE GCD(b, a % b)

NaN == [num |-> 0, den |-> 0]

Infinity(s) == [num |-> s, den |-> 0]

\* n/d with d # 0, in lowest terms with a positive denominator
Ratio(n, d) ==
    LET g == GCD(Abs(n), Abs(d))
        s == IF d < 0 THEN -1 ELSE 1
    IN  [num |-> s * (n \div g), den |-> s * (d \div g)]

FromInt(i) == [num |-> i, den |-> 1]

IsNaN(a) == a.den = 0 /\ a.num = 0

IsFinite(a) == a.den # 0

NumNeg(a) == [num |-> -a.num, den |-> a.den]

NumAdd(a, b) ==
    IF IsNaN(a) \/ IsNaN(b) THEN NaN
    ELSE IF ~IsFinite(a) /\ ~IsFinite(b) THEN (IF a.num = b.num THEN a ELSE NaN)
    ELSE IF ~IsFinite(a) THEN a
    ELSE IF ~IsFinite(b) THEN b
    ELSE Ratio(a.num * b.den + b.num * a.den, a.den * b.den)

NumSub(a, b) == NumAdd(a, NumNeg(b))

NumMul(a, b) ==
    IF IsNaN(a) \/ IsNaN(b) THEN NaN
    ELSE IF ~IsFinite(a) \/ ~IsFinite(b)
         THEN (IF a.num = 0 \/ b.num = 0 THEN NaN
               ELSE Infinity(Sign(a.num) * Sign(b.num)))
    ELSE Ratio(a.num * b.num, a.den * b.den)

NumDiv(a, b) ==
    IF IsNaN(a) \/ IsNaN(b) THEN NaN
    ELSE IF ~IsFinite(b) THEN (IF ~IsFinite(a) THEN NaN ELSE FromInt(0))
    ELSE IF ~IsFinite(a) THEN Infinity(IF b.num < 0 THEN -a.num ELSE a.num)
    ELSE IF b.num = 0 THEN (IF a.num = 0 THEN NaN ELSE Infinity(Sign(a.num)))
    ELSE Ratio(a.num * b.den, a.den * b.num)

\* a < b as the comparison operators of the language decide it: false
\* whenever an operand is NaN
NumLt(a, b) ==
    /\ ~IsNaN(a)
    /\ ~IsNaN(b)
    /\ IF ~IsFinite(a) /\ ~IsFinite(b) THEN a.num < b.num
       ELSE IF ~IsFinite(a) THEN a.num < 0
       ELSE IF ~IsFinite(b) THEN b.num > 0
       ELSE a.num * b.den < b.num * a.den

NumGt(a, b) == NumLt(b, a)

NumEq(a, b) == ~IsNaN(a) /\ ~IsNaN(b) /\ a = b

NumLe(a, b) == NumLt(a, b) \/ NumEq(a, b)

\* ------------------------------------------------------------ Map helpers
MapHas(m, key) == \E i \in 1..Len(m) : m[i].k = key

MapGet(m, key) == m[CHOOSE i \in 1..Len(m) : m[i].k = key].v

\* m.get(key) ?? dflt
MapGetOr(m, key, dflt) == IF MapHas(m, key) THEN MapGet(m, key) ELSE dflt

\* set keeps the position of a key that is present and appends a new key
MapSet(m, key, val) ==
    IF MapHas(m, key)
    THEN LET i == CHOOSE j \in 1..Len(m) : m[j].k = key
         IN  [m EXCEPT ![i] = [k |-> key, v |-> val]]
    ELSE Append(m, [k |-> key, v |-> val])

MapDelete(m, key) == SelectSeq(m, LAMBDA e : e.k # key)

MapKeys(m) == {m[i].k : i \in 1..Len(m)}

RECURSIVE SumSeq(_)
SumSeq(s) == IF s = <<>> THEN 0 ELSE Head(s) + SumSeq(Tail(s))

RECURSIVE Flatten(_)
Flatten(ss) == IF ss = <<>> THEN <<>> ELSE Head(ss) \o Flatten(Tail(ss))

\* ---------------------------------------------------------------- MaxHeap
\* the heap array; item i of the code is heap[i + 1]
size(heap) == Len(heap)

swap(heap, i, j) == [heap EXCEPT ![i + 1] = heap[j + 1], ![j + 1] = heap[i + 1]]

\* bubbleUp that leaves the new item where insert pushed it
bubbleUpNever(heap, index) == heap

RECURSIVE bubbleUp(_, _)
bubbleUp(heap, index) ==
    IF index > 0
    THEN LET parent == (index - 1) \div 2
         IN  IF NumLe(heap[index + 1].deltaQ, heap[parent + 1].deltaQ)
             THEN heap
             ELSE bubbleUp(swap(heap, index, parent), parent)
    ELSE heap

\* bubbleDown that never looks at the right child
RECURSIVE bubbleDownLeftOnly(_, _)
bubbleDownLeftOnly(heap, index) ==
    LET length == Len(heap)
        left == 2 * index + 1
        largest == IF left < length
                      /\ NumGt(heap[left + 1].deltaQ, heap[index + 1].deltaQ)
                   THEN left ELSE index
    IN  IF largest = index
        THEN heap
        ELSE bubbleDownLeftOnly(swap(heap, index, largest), largest)

RECURSIVE bubbleDown(_, _)
bubbleDown(heap, index) ==
    LET length == Len(heap)
        left == 2 * index + 1
        right == 2 * index + 2
        afterLeft == IF left < length
                        /\ NumGt(heap[left + 1].deltaQ, heap[index + 1].deltaQ)
                     THEN left ELSE index
        largest == IF right < length
                      /\ NumGt(heap[right + 1].deltaQ, heap[afterLeft + 1].deltaQ)
                   THEN right ELSE afterLeft
    IN  IF largest = index
        THEN heap
        ELSE bubbleDown(swap(heap, index, largest), largest)

\* insert without the call of bubbleUp
insertUnordered(heap, item) == Append(heap, item)

insert(heap, item) == bubbleUp(Append(heap, item), Len(heap))

\* max is <<>> for the code's undefined, <<item>> otherwise
\* extractMax with this.heap.pop() left out: the maximum is returned and
\* stays stored
extractMaxKeepingLast(heap) ==
    IF Len(heap) = 0
    THEN [max |-> <<>>, heap |-> heap]
    ELSE LET swapped == swap(heap, 0, Len(heap) - 1)
         IN  [max |-> <<swapped[Len(swapped)]>>,
              heap |-> bubbleDown(swapped, 0)]

extractMax(heap) ==
    IF Len(heap) = 0
    THEN [max |-> <<>>, heap |-> heap]
    ELSE LET swapped == swap(heap, 0, Len(heap) - 1)
         IN  [max |-> <<swapped[Len(swapped)]>>,
              heap |-> bubbleDown(SubSeq(swapped, 1, Len(swapped) - 1), 0)]

\* ------------------------------------------------------- CommunityManager
\* the object built by the constructor: node i is alone in community i
NewCommunityManager(nodeCount, degrees, totalEdges) ==
    [nodeToComm  |-> [i \in 1..nodeCount |-> i - 1],
     commDegree  |-> [i \in 1..nodeCount |-> [k |-> i - 1, v |-> degrees[i]]],
     totalEdges  |-> totalEdges,
     nextCommId  |-> nodeCount]

\* mergeCommunities with the degree of commB left out of the new community
mergeCommunitiesLosingDegree(cm, commA, commB) ==
    LET degA == MapGetOr(cm.commDegree, commA, 0)
        mergedId == cm.nextCommId
    IN  [nodeToComm  |-> [i \in 1..Len(cm.nodeToComm) |->
                            IF cm.nodeToComm[i] = commA \/ cm.nodeToComm[i] = commB
                            THEN mergedId ELSE cm.nodeToComm[i]],
         commDegree  |-> MapDelete(MapDelete(
                            MapSet(cm.commDegree, mergedId, degA), commA), commB),
         totalEdges  |-> cm.totalEdges,
         nextCommId  |-> cm.nextCommId + 1]

\* mergeCommunities with commDegree.delete(commB) left out
mergeCommunitiesKeepingB(cm, commA, commB) ==
    LET degA == MapGetOr(cm.commDegree, commA, 0)
        degB == MapGetOr(cm.commDegree, commB, 0)
        mergedId == cm.nextCommId
    IN  [nodeToComm  |-> [i \in 1..Len(cm.nodeToComm) |->
                            IF cm.nodeToComm[i] = commA \/ cm.nodeToComm[i] = commB
                            THEN mergedId ELSE cm.nodeToComm[i]],
         commDegree  |-> MapDelete(MapSet(cm.commDegree, mergedId, degA + degB), commA),
         totalEdges  |-> cm.totalEdges,
         nextCommId  |-> cm.nextCommId + 1]

\* mergeCommunities that gives the merged community the id of commA in place
\* of a new one
mergeCommunitiesReusingA(cm, commA, commB) ==
    LET degA == MapGetOr(cm.commDegree, commA, 0)
        degB == MapGetOr(cm.commDegree, commB, 0)
        mergedId == commA
    IN  [nodeToComm  |-> [i \in 1..Len(cm.nodeToComm) |->
                            IF cm.nodeToComm[i] = commA \/ cm.nodeToComm[i] = commB
                            THEN mergedId ELSE cm.nodeToComm[i]],
         commDegree  |-> MapDelete(MapSet(cm.commDegree, mergedId, degA + degB), commB),
         totalEdges  |-> cm.totalEdges,
         nextCommId  |-> cm.nextCommId + 1]

\* the manager after mergeCommunities(commA, commB); the id returned is the
\* nextCommId of the manager before the call
mergeCommunities(cm, commA, commB) ==
    LET degA == MapGetOr(cm.commDegree, commA, 0)
        degB == MapGetOr(cm.commDegree, commB, 0)
        mergedId == cm.nextCommId
        newDegree == degA + degB
    IN  [nodeToComm  |-> [i \in 1..Len(cm.nodeToComm) |->
                            IF cm.nodeToComm[i] = commA \/ cm.nodeToComm[i] = commB
                            THEN mergedId ELSE cm.nodeToComm[i]],
         commDegree  |-> MapDelete(MapDelete(
                            MapSet(cm.commDegree, mergedId, newDegree), commA), commB),
         totalEdges  |-> cm.totalEdges,
         nextCommId  |-> cm.nextCommId + 1]

\* deltaQ with the expected fraction doubled, as the formula in its comment
\* writes it
deltaQDoubled(cm, commA, commB, edgesBetween) ==
    LET m == cm.totalEdges
        degA == MapGetOr(cm.commDegree, commA, 0)
        degB == MapGetOr(cm.commDegree, commB, 0)
        eAB == NumDiv(FromInt(edgesBetween), m)
        expAB == NumDiv(FromInt(degA * degB), NumMul(NumMul(FromInt(2), m), m))
    IN  NumSub(eAB, NumMul(FromInt(2), expAB))

deltaQ(cm, commA, commB, edgesBetween) ==
    LET m == cm.totalEdges
        degA == MapGetOr(cm.commDegree, commA, 0)
        degB == MapGetOr(cm.commDegree, commB, 0)
        eAB == NumDiv(FromInt(edgesBetween), m)
        expAB == NumDiv(FromInt(degA * degB), NumMul(NumMul(FromInt(2), m), m))
    IN  NumSub(eAB, expAB)

\* ------------------------------------------------------ FastNewman helpers
\* the canonical key of an unordered pair; the code's string "lo#hi" names
\* the same pair <<lo, hi>>
makeKey(a, b) == IF a < b THEN <<a, b>> ELSE <<b, a>>

\* adjacencyMatrix[i][j] !== 0; an entry past the end of a row reads as
\* undefined, which differs from 0
IsNonZero(matrix, i, j) ==
    IF j + 1 \in DOMAIN matrix[i + 1] THEN matrix[i + 1][j + 1] # 0 ELSE TRUE

\* the neighbors array built for row i
neighborsOf(matrix, i) ==
    SelectSeq([j \in 1..Len(matrix) |-> j - 1], LAMBDA j : IsNonZero(matrix, i, j))

\* degrees[i] is incremented once per pushed neighbor
degreesOf(matrix) == [i \in 1..Len(matrix) |-> Len(neighborsOf(matrix, i - 1))]

totalDegreeOf(matrix) == SumSeq(degreesOf(matrix))

edgeCountOf(matrix) == NumDiv(FromInt(totalDegreeOf(matrix)), FromInt(2))

\* one crossing edge between commA and commB added to both neighbor maps
addCommEdge(commEdges, commA, commB) ==
    LET ce1 == IF MapHas(commEdges, commA) THEN commEdges
               ELSE MapSet(commEdges, commA, <<>>)
        ce2 == IF MapHas(ce1, commB) THEN ce1 ELSE MapSet(ce1, commB, <<>>)
        mapA == MapGet(ce2, commA)
        ce3 == MapSet(ce2, commA, MapSet(mapA, commB, MapGetOr(mapA, commB, 0) + 1))
        mapB == MapGet(ce3, commB)
    IN  MapSet(ce3, commB, MapSet(mapB, commA, MapGetOr(mapB, commA, 0) + 1))

\* edgeVisits with the pair (first node, last node) visited as well, joined
\* by an entry or not
edgeVisitsWithStray(matrix) ==
    Flatten([i \in 1..Len(matrix) |->
               LET nbrs == neighborsOf(matrix, i - 1)
               IN  [j \in 1..Len(nbrs) |-> <<i - 1, nbrs[j]>>]])
      \o (IF Len(matrix) >= 2 THEN << <<0, Len(matrix) - 1>> >> ELSE <<>>)

\* the (node, neighbor) pairs the two nested loops reach, in loop order
edgeVisits(matrix) ==
    Flatten([i \in 1..Len(matrix) |->
               LET nbrs == neighborsOf(matrix, i - 1)
               IN  [j \in 1..Len(nbrs) |-> <<i - 1, nbrs[j]>>]])

RECURSIVE foldCommEdges(_, _, _)
foldCommEdges(cm, visits, commEdges) ==
    IF visits = <<>> THEN commEdges
    ELSE LET node == Head(visits)[1]
             neighbor == Head(visits)[2]
             commA == cm.nodeToComm[node + 1]
             commB == cm.nodeToComm[neighbor + 1]
         IN  IF neighbor <= node \/ commA = commB
             THEN foldCommEdges(cm, Tail(visits), commEdges)
             ELSE foldCommEdges(cm, Tail(visits), addCommEdge(commEdges, commA, commB))

buildCommEdges(cm, matrix) == foldCommEdges(cm, edgeVisits(matrix), <<>>)

\* the (comm, nbr, edgeCountBetween) triples of commEdges in iteration order
commEdgeEntries(commEdges) ==
    Flatten([i \in 1..Len(commEdges) |->
               [j \in 1..Len(commEdges[i].v) |->
                  [comm |-> commEdges[i].k,
                   nbr |-> commEdges[i].v[j].k,
                   count |-> commEdges[i].v[j].v]]])

\* the seeding without the insertedPairs test: one candidate per direction
RECURSIVE foldSeedBothDirections(_, _, _, _)
foldSeedBothDirections(cm, entries, heap, insertedPairs) ==
    IF entries = <<>> THEN heap
    ELSE LET e == Head(entries)
         IN  foldSeedBothDirections(cm, Tail(entries),
                 insert(heap, [deltaQ |-> deltaQ(cm, e.comm, e.nbr, e.count),
                               commA |-> e.comm, commB |-> e.nbr]),
                 insertedPairs)

RECURSIVE foldSeed(_, _, _, _)
foldSeed(cm, entries, heap, insertedPairs) ==
    IF entries = <<>> THEN heap
    ELSE LET e == Head(entries)
             key == makeKey(e.comm, e.nbr)
         IN  IF key \in insertedPairs
             THEN foldSeed(cm, Tail(entries), heap, insertedPairs)
             ELSE foldSeed(cm, Tail(entries),
                           insert(heap, [deltaQ |-> deltaQ(cm, e.comm, e.nbr, e.count),
                                         commA |-> e.comm, commB |-> e.nbr]),
                           insertedPairs \cup {key})

seedHeap(cm, commEdges) == foldSeed(cm, commEdgeEntries(commEdges), <<>>, {})

RECURSIVE foldInitialModularity(_, _, _)
foldInitialModularity(m, entries, sum) ==
    IF entries = <<>> THEN sum
    ELSE LET fraction == NumDiv(FromInt(Head(entries).v), NumMul(FromInt(2), m))
         IN  foldInitialModularity(m, Tail(entries),
                                   NumAdd(sum, NumMul(fraction, fraction)))

\* computeInitialModularity returning sum in place of -sum
computeInitialModularityUnsigned(cm) ==
    foldInitialModularity(cm.totalEdges, cm.commDegree, FromInt(0))

computeInitialModularity(cm) ==
    NumNeg(foldInitialModularity(cm.totalEdges, cm.commDegree, FromInt(0)))

RECURSIVE foldCommunities(_, _, _)
foldCommunities(nodeToComm, node, communities) ==
    IF node >= Len(nodeToComm) THEN communities
    ELSE LET comm == nodeToComm[node + 1]
         IN  foldCommunities(nodeToComm, node + 1,
                 MapSet(communities, comm,
                        Append(MapGetOr(communities, comm, <<>>), node)))

\* Array.from(communities.values())
extractCommunities(cm) ==
    LET communities == foldCommunities(cm.nodeToComm, 0, <<>>)
    IN  [i \in 1..Len(communities) |-> communities[i].v]

\* history.reduce((acc, cur) => (cur.q > acc.q ? cur : acc)) without an
\* initial value: acc starts as the first entry
RECURSIVE reduceBest(_, _)
reduceBest(acc, rest) ==
    IF rest = <<>> THEN acc
    ELSE reduceBest(IF NumGt(Head(rest).q, acc.q) THEN Head(rest) ELSE acc, Tail(rest))

bestOf(hist) == reduceBest(Head(hist), Tail(hist))

\* one pass of the for-loop of updateNeighbors over the entries of nbrMap;
\* st holds the two maps the closure mutates
\* updateNeighbors with the counts of a neighbor shared by commA and commB
\* overwritten in place of summed
RECURSIVE foldNeighborsOverwriting(_, _, _, _)
foldNeighborsOverwriting(st, entries, cand, mergedId) ==
    IF entries = <<>> THEN st
    ELSE LET nbr == Head(entries).k
             count == Head(entries).v
         IN  IF nbr = cand.commA \/ nbr = cand.commB
             THEN foldNeighborsOverwriting(st, Tail(entries), cand, mergedId)
             ELSE LET nn == MapSet(st.newNeighbors, nbr, count)
                      ce == IF MapHas(st.commEdges, nbr)
                            THEN LET pruned == MapDelete(MapDelete(
                                         MapGet(st.commEdges, nbr), cand.commA), cand.commB)
                                 IN  MapSet(st.commEdges, nbr,
                                            MapSet(pruned, mergedId, count))
                            ELSE st.commEdges
                  IN  foldNeighborsOverwriting([newNeighbors |-> nn, commEdges |-> ce],
                                               Tail(entries), cand, mergedId)

\* updateNeighbors without the test that skips commA and commB
RECURSIVE foldNeighborsKeepingMerged(_, _, _, _)
foldNeighborsKeepingMerged(st, entries, cand, mergedId) ==
    IF entries = <<>> THEN st
    ELSE LET nbr == Head(entries).k
             count == Head(entries).v
             nn == MapSet(st.newNeighbors, nbr,
                          MapGetOr(st.newNeighbors, nbr, 0) + count)
             ce == IF MapHas(st.commEdges, nbr)
                   THEN LET pruned == MapDelete(MapDelete(
                                MapGet(st.commEdges, nbr), cand.commA), cand.commB)
                        IN  MapSet(st.commEdges, nbr,
                                   MapSet(pruned, mergedId,
                                          MapGetOr(pruned, mergedId, 0) + count))
                   ELSE st.commEdges
         IN  foldNeighborsKeepingMerged([newNeighbors |-> nn, commEdges |-> ce],
                                        Tail(entries), cand, mergedId)

RECURSIVE foldNeighbors(_, _, _, _)
foldNeighbors(st, entries, cand, mergedId) ==
    IF entries = <<>> THEN st
    ELSE LET nbr == Head(entries).k
             count == Head(entries).v
         IN  IF nbr = cand.commA \/ nbr = cand.commB
             THEN foldNeighbors(st, Tail(entries), cand, mergedId)
             ELSE LET nn == MapSet(st.newNeighbors, nbr,
                                   MapGetOr(st.newNeighbors, nbr, 0) + count)
                      ce == IF MapHas(st.commEdges, nbr)
                            THEN LET pruned == MapDelete(MapDelete(
                                         MapGet(st.commEdges, nbr), cand.commA), cand.commB)
                                 IN  MapSet(st.commEdges, nbr,
                                            MapSet(pruned, mergedId,
                                                   MapGetOr(pruned, mergedId, 0) + count))
                            ELSE st.commEdges
                  IN  foldNeighbors([newNeighbors |-> nn, commEdges |-> ce],
                                    Tail(entries), cand, mergedId)

updateNeighbors(st, oldComm, cand, mergedId) ==
    IF ~MapHas(st.commEdges, oldComm) THEN st
    ELSE foldNeighbors(st, MapGet(st.commEdges, oldComm), cand, mergedId)

\* the re-keying with updateNeighbors(candidate.commB) left out
rekeyCommEdgesWithoutB(commEdges, cand, mergedId) ==
    LET st0 == [newNeighbors |-> <<>>, commEdges |-> commEdges]
        st1 == updateNeighbors(st0, cand.commA, cand, mergedId)
    IN  MapSet(MapDelete(MapDelete(st1.commEdges, cand.commA), cand.commB),
               mergedId, st1.newNeighbors)

\* the re-keying with commEdges.delete(commA) and commEdges.delete(commB)
\* left out
rekeyCommEdgesKeepingOld(commEdges, cand, mergedId) ==
    LET st0 == [newNeighbors |-> <<>>, commEdges |-> commEdges]
        st1 == updateNeighbors(st0, cand.commA, cand, mergedId)
        st2 == updateNeighbors(st1, cand.commB, cand, mergedId)
    IN  MapSet(st2.commEdges, mergedId, st2.newNeighbors)

\* commEdges after both updateNeighbors calls, the two deletes and the set
rekeyCommEdges(commEdges, cand, mergedId) ==
    LET st0 == [newNeighbors |-> <<>>, commEdges |-> commEdges]
        st1 == updateNeighbors(st0, cand.commA, cand, mergedId)
        st2 == updateNeighbors(st1, cand.commB, cand, mergedId)
    IN  MapSet(MapDelete(MapDelete(st2.commEdges, cand.commA), cand.commB),
               mergedId, st2.newNeighbors)

\* the new candidates computed with one crossing edge each, whatever the
\* count newNeighbors holds
RECURSIVE insertCandidatesUnitCount(_, _, _, _)
insertCandidatesUnitCount(cm, mergedId, entries, heap) ==
    IF entries = <<>> THEN heap
    ELSE insertCandidatesUnitCount(cm, mergedId, Tail(entries),
             insert(heap, [deltaQ |-> deltaQ(cm, mergedId, Head(entries).k, 1),
                           commA |-> mergedId, commB |-> Head(entries).k]))

\* every new candidate inserted twice
RECURSIVE insertCandidatesTwice(_, _, _, _)
insertCandidatesTwice(cm, mergedId, entries, heap) ==
    IF entries = <<>> THEN heap
    ELSE LET c == [deltaQ |-> deltaQ(cm, mergedId, Head(entries).k, Head(entries).v),
                   commA |-> mergedId, commB |-> Head(entries).k]
         IN  insertCandidatesTwice(cm, mergedId, Tail(entries),
                                   insert(insert(heap, c), c))

\* the candidates inserted for the merged community, one per entry of
\* newNeighbors
RECURSIVE insertCandidates(_, _, _, _)
insertCandidates(cm, mergedId, entries, heap) ==
    IF entries = <<>> THEN heap
    ELSE insertCandidates(cm, mergedId, Tail(entries),
             insert(heap, [deltaQ |-> deltaQ(cm, mergedId, Head(entries).k, Head(entries).v),
                           commA |-> mergedId, commB |-> Head(entries).k]))

\* ------------------------------------------------------------------ inputs
UpperPairs(n) == {p \in (1..n) \X (1..n) : p[1] < p[2]}

UpperPairsWithDiagonal(n) == {p \in (1..n) \X (1..n) : p[1] <= p[2]}

\* simple undirected graphs on n nodes: symmetric 0/1, zero diagonal
SimpleGraphs(n) ==
    {[i \in 1..n |-> [j \in 1..n |-> IF i = j THEN 0 ELSE f[makeKey(i, j)]]] :
        f \in [UpperPairs(n) -> 0..1]}

\* symmetric matrices of edge multiplicities, self-loops allowed
MultiGraphs(n) ==
    {[i \in 1..n |-> [j \in 1..n |-> f[makeKey(i, j)]]] :
        f \in [UpperPairsWithDiagonal(n) -> 0..MaxWeight]}

\* the all-zero n x n matrix
ZeroMatrix(n) == [i \in 1..n |-> [j \in 1..n |-> 0]]

\* two disjoint triangles: nodes 0, 1, 2 and nodes 3, 4, 5
TwoTriangles ==
    [i \in 1..6 |-> [j \in 1..6 |->
        IF i # j /\ ((i - 1) \div 3) = ((j - 1) \div 3) THEN 1 ELSE 0]]

\* one edge between two nodes
SingleEdge == << <<0, 1>>, <<1, 0>> >>

\* the path 1 - 2 - 3 - 0 with a self-loop on node 3: the three edges between
\* distinct nodes have the degree products 2, 6 and 3
LoopedPath ==
    << <<0, 0, 0, 1>>, <<0, 0, 1, 0>>, <<0, 1, 0, 1>>, <<1, 0, 1, 1>> >>

\* the graphs of the scenarios, whatever the bounds
ScenarioInputs == {ZeroMatrix(5), TwoTriangles, SingleEdge, LoopedPath}

Inputs ==
    UNION {SimpleGraphs(n) : n \in 0..MaxN}
      \cup UNION {MultiGraphs(n) : n \in 0..MaxMultiN}
      \cup ScenarioInputs

\* the matrices used when one instance is fitted more than once
RefitInputs ==
    { <<>>,
      << <<0>> >>,
      << <<0, 1>>, <<1, 0>> >>,
      << <<1, 1>>, <<1, 1>> >>,
      << <<0, 1, 0>>, <<1, 0, 1>>, <<0, 1, 0>> >>,
      << <<0, 0, 0>>, <<0, 0, 0>>, <<0, 0, 0>> >> }

\* row r of the matrix cut to len entries, or filled up to len with zeros
Reshape(matrix, r, len) ==
    [matrix EXCEPT ![r] = [j \in 1..len |->
                             IF j <= Len(matrix[r]) THEN matrix[r][j] ELSE 0]]

\* every row of the matrix cut to cols entries, or filled up with zeros
Resize(matrix, cols) ==
    [i \in 1..Len(matrix) |-> [j \in 1..cols |->
                                 IF j <= Len(matrix[i]) THEN matrix[i][j] ELSE 0]]

\* arrays of rows that need not be square: the simple graphs with all rows,
\* or one row, given another length (the square ones are among them)
ShapeInputs ==
    UNION {UNION {{Resize(g, cols) : cols \in 0..(n + 1)}
                    \cup {Reshape(g, r, len) : r \in 1..n, len \in 0..(n + 1)} :
                  g \in SimpleGraphs(n)} : n \in 1..MaxShapeN}

\* ---- AdjacencyMatrix.fromEdgeList
\* the elements of a sequence
Range(s) == {s[i] : i \in 1..Len(s)}

\* the Set filled by the first loop, as Array.from lists it: node values in
\* the order in which they first occur
RECURSIVE collectNodes(_, _)
collectNodes(edges, nodes) ==
    IF edges = <<>> THEN nodes
    ELSE LET source == Head(edges)[1]
             target == Head(edges)[2]
             withSource == IF source \in Range(nodes) THEN nodes
                           ELSE Append(nodes, source)
             withTarget == IF target \in Range(withSource) THEN withSource
                           ELSE Append(withSource, target)
         IN  collectNodes(Tail(edges), withTarget)

\* mapping.get(node): the 0-based index of a node value
indexOf(nodes, node) == (CHOOSE i \in 1..Len(nodes) : nodes[i] = node) - 1

\* the second loop: matrix[i][j] = 1 for every edge [source, target]
RECURSIVE fillMatrix(_, _, _)
fillMatrix(matrix, edges, nodes) ==
    IF edges = <<>> THEN matrix
    ELSE LET i == indexOf(nodes, Head(edges)[1])
             j == indexOf(nodes, Head(edges)[2])
         IN  fillMatrix([matrix EXCEPT ![i + 1][j + 1] = 1], Tail(edges), nodes)

\* the object fromEdgeList returns: getMatrix() and the node legend
fromEdgeList(edges) ==
    LET nodes == collectNodes(edges, <<>>)
        n == Len(nodes)
    IN  [matrix |-> fillMatrix([i \in 1..n |-> [j \in 1..n |-> 0]], edges, nodes),
         nodeMapping |-> nodes]

\* node values used in edge lists
Labels == 1..MaxLabels

SeqsUpTo(S, len) == UNION {[1..k -> S] : k \in 0..len}

\* edge lists: sequences of [source, target] pairs
EdgeLists == SeqsUpTo(Labels \X Labels, MaxEdges)

\* the degrees arrays given to a CommunityManager constructed on its own
DegreeArrays(n) == [1..n -> 0..MaxDegree]

OptionValues ==
    {[numberOfCommunities |-> s] : s \in {{}} \cup {{t} : t \in 0..MaxTarget}}

\* ------------------------------------------------------------------- state
VARIABLES
    options,          \* this.options; numberOfCommunities is {} when absent
    history,          \* this.history
    pc,               \* "idle", "loop" (at the while test of fit), "done";
                      \* "built" once fromEdgeList has returned, "manager"
                      \* while a CommunityManager is used on its own,
                      \* "heap" while a MaxHeap is used on its own
    stop,             \* which exit ended the loop of the last call
    calls,            \* number of fit calls started on this instance
    historyBase,      \* history.length when the current call was entered
    adjacencyMatrix,  \* the argument of the current call
    cm,               \* the CommunityManager of the current call
    commEdges,        \* community -> (neighbor community -> crossing edges)
    heap,             \* the MaxHeap of merge candidates
    currentQ,         \* the running modularity
    candidate,        \* the candidate last extracted, <<>> before the first
    result,           \* the value the last call returned
    edgeList,         \* the argument of the last fromEdgeList call
    built,            \* the AdjacencyMatrix object that call returned
    heapOps           \* calls made on a MaxHeap used on its own: inserts,
                      \* extractMax calls that returned an element, and
                      \* extractMax calls that returned undefined

vars == <<options, history, pc, stop, calls, historyBase, adjacencyMatrix, cm,
          commEdges, heap, currentQ, candidate, result, edgeList, built, heapOps>>

nodeCount == Len(adjacencyMatrix)

\* this.options.numberOfCommunities ?? 1
desired ==
    IF options.numberOfCommunities = {} THEN 1
    ELSE CHOOSE t \in options.numberOfCommunities : TRUE

\* the liveness test answering true for every id
IsLiveAlways(c) == TRUE

IsLive(c) == MapHas(cm.commDegree, c)

\* the target test written with < in place of <=
targetReachedStrictly(liveCount, target) == liveCount < target

\* cm.commDegree.size <= desired
targetReached(liveCount, target) == liveCount <= target

\* the gain test written with < in place of <=
isNegative(cand) == NumLt(cand.deltaQ, FromInt(0))

\* candidate.deltaQ <= 0
isNonPositive(cand) == NumLe(cand.deltaQ, FromInt(0))

Init ==
    /\ options \in OptionValues
    /\ history = <<>>
    /\ pc = "idle"
    /\ stop = "none"
    /\ calls = 0
    /\ historyBase = 0
    /\ adjacencyMatrix = <<>>
    /\ cm = NewCommunityManager(0, <<>>, FromInt(0))
    /\ commEdges = <<>>
    /\ heap = <<>>
    /\ currentQ = FromInt(0)
    /\ candidate = <<>>
    /\ result = [communities |-> <<>>, modularityHistory |-> <<>>]
    /\ edgeList = <<>>
    /\ built = [matrix |-> <<>>, nodeMapping |-> <<>>]
    /\ heapOps = [inserts |-> 0, extractions |-> 0, misses |-> 0]

\* fit from its entry to the first test of the while loop
EnterFit(matrix) ==
    LET cm0 == NewCommunityManager(Len(matrix), degreesOf(matrix), edgeCountOf(matrix))
        ce0 == buildCommEdges(cm0, matrix)
        q0 == computeInitialModularity(cm0)
    IN  /\ adjacencyMatrix' = matrix
        /\ cm' = cm0
        /\ commEdges' = ce0
        /\ heap' = seedHeap(cm0, ce0)
        /\ currentQ' = q0
        /\ history' = Append(history, [q |-> q0, communities |-> extractCommunities(cm0)])
        /\ historyBase' = Len(history)
        /\ calls' = calls + 1
        /\ candidate' = <<>>
        /\ stop' = "none"
        /\ pc' = "loop"
        /\ UNCHANGED <<options, result, edgeList, built, heapOps>>

\* the statements after the loop: pick the best entry and return
Return(reason) ==
    /\ result' = [communities |-> bestOf(history).communities,
                  modularityHistory |-> history]
    /\ stop' = reason
    /\ pc' = "done"

\* a fresh instance is fitted once
Fit ==
    /\ pc = "idle"
    /\ calls = 0
    /\ \E matrix \in Inputs : EnterFit(matrix)

\* one instance is fitted up to MaxCalls times
FitAgain ==
    /\ pc \in {"idle", "done"}
    /\ calls < MaxCalls
    /\ \E matrix \in RefitInputs : EnterFit(matrix)

\* while (heap.size() > 0) is false
ExitEmpty ==
    /\ pc = "loop"
    /\ size(heap) = 0
    /\ Return("empty")
    /\ UNCHANGED <<options, history, calls, historyBase, adjacencyMatrix, cm,
                   commEdges, heap, currentQ, candidate, edgeList, built, heapOps>>

\* if (cm.commDegree.size <= desired) break
ExitTarget ==
    /\ pc = "loop"
    /\ size(heap) > 0
    /\ targetReached(Len(cm.commDegree), desired)
    /\ Return("target")
    /\ UNCHANGED <<options, history, calls, historyBase, adjacencyMatrix, cm,
                   commEdges, heap, currentQ, candidate, edgeList, built, heapOps>>

CanPop == pc = "loop" /\ size(heap) > 0 /\ ~targetReached(Len(cm.commDegree), desired)

\* if (candidate.deltaQ <= 0) break
ExitNonPositive ==
    /\ CanPop
    /\ LET r == extractMax(heap)
           c == Head(r.max)
       IN  /\ isNonPositive(c)
           /\ heap' = r.heap
           /\ candidate' = r.max
    /\ Return("gain")
    /\ UNCHANGED <<options, history, calls, historyBase, adjacencyMatrix, cm,
                   commEdges, currentQ, edgeList, built, heapOps>>

\* an endpoint of the candidate is no longer in commDegree: continue
PopStale ==
    /\ CanPop
    /\ LET r == extractMax(heap)
           c == Head(r.max)
       IN  /\ ~isNonPositive(c)
           /\ ~IsLive(c.commA) \/ ~IsLive(c.commB)
           /\ heap' = r.heap
           /\ candidate' = r.max
    /\ UNCHANGED <<options, history, pc, stop, calls, historyBase, adjacencyMatrix,
                   cm, commEdges, currentQ, result, edgeList, built, heapOps>>

\* the accepted merge with one partition object shared by all entries: each
\* entry pushed refers to the same array, rewritten at every merge
PopMergeSharingSnapshot ==
    /\ CanPop
    /\ LET r == extractMax(heap)
           c == Head(r.max)
           mergedId == cm.nextCommId
           cm1 == mergeCommunities(cm, c.commA, c.commB)
           q1 == NumAdd(currentQ, c.deltaQ)
           ce1 == rekeyCommEdges(commEdges, c, mergedId)
           shared == extractCommunities(cm1)
       IN  /\ ~isNonPositive(c)
           /\ IsLive(c.commA) /\ IsLive(c.commB)
           /\ candidate' = r.max
           /\ cm' = cm1
           /\ currentQ' = q1
           /\ history' = Append([i \in 1..Len(history) |->
                                    [q |-> history[i].q, communities |-> shared]],
                                [q |-> q1, communities |-> shared])
           /\ commEdges' = ce1
           /\ heap' = insertCandidates(cm1, mergedId, MapGet(ce1, mergedId), r.heap)
    /\ UNCHANGED <<options, pc, stop, calls, historyBase, adjacencyMatrix, result,
                   edgeList, built, heapOps>>

\* the candidate is accepted: merge, record, re-key, insert new candidates
PopMerge ==
    /\ CanPop
    /\ LET r == extractMax(heap)
           c == Head(r.max)
           mergedId == cm.nextCommId
           cm1 == mergeCommunities(cm, c.commA, c.commB)
           q1 == NumAdd(currentQ, c.deltaQ)
           ce1 == rekeyCommEdges(commEdges, c, mergedId)
       IN  /\ ~isNonPositive(c)
           /\ IsLive(c.commA) /\ IsLive(c.commB)
           /\ candidate' = r.max
           /\ cm' = cm1
           /\ currentQ' = q1
           /\ history' = Append(history, [q |-> q1, communities |-> extractCommunities(cm1)])
           /\ commEdges' = ce1
           /\ heap' = insertCandidates(cm1, mergedId, MapGet(ce1, mergedId), r.heap)
    /\ UNCHANGED <<options, pc, stop, calls, historyBase, adjacencyMatrix, result,
                   edgeList, built, heapOps>>

Step == ExitEmpty \/ ExitTarget \/ ExitNonPositive \/ PopStale \/ PopMerge

Next == Fit \/ ExitEmpty \/ ExitTarget \/ ExitNonPositive \/ PopStale \/ PopMerge

Spec == Init /\ [][Next]_vars

NextRefit == FitAgain \/ ExitEmpty \/ ExitTarget \/ ExitNonPositive \/ PopStale \/ PopMerge

SpecRefit == Init /\ [][NextRefit]_vars

\* a fresh instance is fitted once on an array of rows of any lengths
FitAnyShape ==
    /\ pc = "idle"
    /\ calls = 0
    /\ \E matrix \in ShapeInputs : EnterFit(matrix)

NextShape ==
    FitAnyShape \/ ExitEmpty \/ ExitTarget \/ ExitNonPositive \/ PopStale \/ PopMerge

SpecShape == Init /\ [][NextShape]_vars

\* the static factory is called, once, on an edge list
FromEdgeList ==
    /\ pc = "idle"
    /\ \E edges \in EdgeLists :
          /\ edgeList' = edges
          /\ built' = fromEdgeList(edges)
    /\ pc' = "built"
    /\ UNCHANGED <<options, history, stop, calls, historyBase, adjacencyMatrix,
                   cm, commEdges, heap, currentQ, candidate, result, heapOps>>

NextEdgeList == FromEdgeList

SpecEdgeList == Init /\ [][NextEdgeList]_vars

\* new CommunityManager(nodeCount, degrees, totalEdges) outside fit
NewManager ==
    /\ pc = "idle"
    /\ \E n \in 0..MaxManagerN : \E degrees \in DegreeArrays(n) :
          cm' = NewCommunityManager(n, degrees, NumDiv(FromInt(SumSeq(degrees)), FromInt(2)))
    /\ pc' = "manager"
    /\ UNCHANGED <<options, history, stop, calls, historyBase, adjacencyMatrix,
                   commEdges, heap, currentQ, candidate, result, edgeList, built, heapOps>>

\* mergeCommunities(commA, commB) on any two distinct live communities
MergeAny ==
    /\ pc = "manager"
    /\ \E commA, commB \in MapKeys(cm.commDegree) :
          /\ commA # commB
          /\ cm' = mergeCommunities(cm, commA, commB)
    /\ UNCHANGED <<options, history, pc, stop, calls, historyBase, adjacencyMatrix,
                   commEdges, heap, currentQ, candidate, result, edgeList, built, heapOps>>

NextManager == NewManager \/ MergeAny

SpecManager == Init /\ [][NextManager]_vars

\* the items inserted into a MaxHeap used on its own: two per gain, so that
\* items of equal gain can be told apart
HeapItems ==
    {[commA |-> a, commB |-> 2, deltaQ |-> FromInt(g)] : a \in 0..1, g \in 0..MaxGain}

\* new MaxHeap() outside fit
NewHeap ==
    /\ pc = "idle"
    /\ heap' = <<>>
    /\ pc' = "heap"
    /\ UNCHANGED <<options, history, stop, calls, historyBase, adjacencyMatrix,
                   cm, commEdges, currentQ, candidate, result, edgeList, built,
                   heapOps>>

\* heap.insert(item)
HeapInsert ==
    /\ pc = "heap"
    /\ heapOps.inserts < MaxInserts
    /\ \E item \in HeapItems : heap' = insert(heap, item)
    /\ heapOps' = [heapOps EXCEPT !.inserts = @ + 1]
    /\ UNCHANGED <<options, history, pc, stop, calls, historyBase, adjacencyMatrix,
                   cm, commEdges, currentQ, candidate, result, edgeList, built>>

\* heap.extractMax() while the heap holds an item
HeapExtractMax ==
    /\ pc = "heap"
    /\ size(heap) > 0
    /\ LET r == extractMax(heap)
       IN  /\ heap' = r.heap
           /\ candidate' = r.max
    /\ heapOps' = [heapOps EXCEPT !.extractions = @ + 1]
    /\ UNCHANGED <<options, history, pc, stop, calls, historyBase, adjacencyMatrix,
                   cm, commEdges, currentQ, result, edgeList, built>>

\* heap.extractMax() while the heap is empty
HeapExtractEmpty ==
    /\ pc = "heap"
    /\ size(heap) = 0
    /\ heapOps.misses < MaxMisses
    /\ LET r == extractMax(heap)
       IN  /\ heap' = r.heap
           /\ candidate' = r.max
    /\ heapOps' = [heapOps EXCEPT !.misses = @ + 1]
    /\ UNCHANGED <<options, history, pc, stop, calls, historyBase, adjacencyMatrix,
                   cm, commEdges, currentQ, result, edgeList, built>>

NextHeap == NewHeap \/ HeapInsert \/ HeapExtractMax \/ HeapExtractEmpty

SpecHeap == Init /\ [][NextHeap]_vars

\* ================================================================= claims
\* number of merges accepted so far by the current call: every merge takes
\* one id from nextCommId, which starts at nodeCount
merges == cm.nextCommId - nodeCount

Running == pc \in {"loop", "done"}

\* the k-th trajectory entry appended by the current call, k >= 1
RunEntry(k) == history[historyBase + k]

RunLength == Len(history) - historyBase

\* how often node is listed in the communities of a partition
Occurrences(communities, node) ==
    SumSeq([c \in 1..Len(communities) |->
              Cardinality({p \in 1..Len(communities[c]) : communities[c][p] = node})])

\* every node of 0..n-1 is listed exactly once and nothing else is listed
IsPartitionOf(communities, n) ==
    /\ \A node \in 0..(n - 1) : Occurrences(communities, node) = 1
    /\ \A c \in 1..Len(communities) : \A p \in 1..Len(communities[c]) :
          communities[c][p] \in 0..(n - 1)

\* the degree of a node read off the matrix: its non-zero entries
NodeDegree(matrix, i) ==
    Cardinality({j \in 0..(Len(matrix) - 1) : IsNonZero(matrix, i, j)})

RECURSIVE SumOver(_, _)
SumOver(S, f) ==
    IF S = {} THEN 0
    ELSE LET x == CHOOSE y \in S : TRUE IN f[x] + SumOver(S \ {x}, f)

\* C1: in every entry of the trajectory returned by fit on an n-node graph
\* each node of [0, n) is listed in exactly one community.
C1_ReturnedPartitionsValid ==
    pc = "done" =>
        \A k \in 1..Len(result.modularityHistory) :
            IsPartitionOf(result.modularityHistory[k].communities, nodeCount)

\* The entries the current call appended are partitions of its own nodes;
\* C1 fails only on the entries an earlier call left in this.history.
OwnPartitionsValid ==
    Running => \A k \in 1..RunLength : IsPartitionOf(RunEntry(k).communities, nodeCount)

OwnPartitionsMerged == pc = "done" /\ merges >= 2 /\ nodeCount >= 3

\* C2: at every step of a fit run the aggregate degrees stored for the live
\* communities add up to the sum of the node degrees of the input graph.
C2_DegreeConservation ==
    Running =>
        SumSeq([i \in 1..Len(cm.commDegree) |-> cm.commDegree[i].v])
          = SumOver(0..(nodeCount - 1),
                    [i \in 0..(nodeCount - 1) |-> NodeDegree(adjacencyMatrix, i)])

C2_Witness ==
    /\ Running
    /\ merges >= 2
    /\ \E i \in 1..Len(cm.commDegree) : cm.commDegree[i].v >= 3

\* a step of the loop that accepts a merge: it appends to the trajectory
Accepts == pc = "loop" /\ (Len(history') = Len(history) + 1 \/ cm' # cm)

\* the gain stored in the candidate the step extracted
AcceptedGain == Head(candidate').deltaQ

\* C3: for consecutive trajectory entries k, k+1 of one fit run, score(k+1) is
\* score(k) plus the gain stored in the accepted candidate, and that gain is
\* strictly positive: no merge with gain <= 0 is accepted.
C3_MonotonicAcceptance ==
    /\ [][Accepts =>
            /\ candidate' # <<>>
            /\ NumGt(AcceptedGain, FromInt(0))
            /\ Len(history') = Len(history) + 1
            /\ cm'.nextCommId = cm.nextCommId + 1
            /\ history'[Len(history')].q
                 = NumAdd(history[Len(history)].q, AcceptedGain)]_vars
    /\ [](Running => \A k \in 1..(RunLength - 1) :
                        NumGt(RunEntry(k + 1).q, RunEntry(k).q))

C3_Witness == Running /\ RunLength >= 3 /\ nodeCount >= 3

\* live communities of the current call
liveCount == Len(cm.commDegree)

\* the candidates of a heap that do not involve community id
NotInvolving(h, id) == {i \in 1..Len(h) : h[i].commA # id /\ h[i].commB # id}

\* a natural number that every iteration of the loop that goes on lowers: a
\* merge removes one candidate and adds at most liveCount - 2, a stale pop
\* removes one
Measure == Len(heap) + liveCount * liveCount

\* C4: the merge loop terminates after at most n-1 merges (none for n = 0):
\* an accepted merge lowers the live-community count by exactly one, an
\* iteration that goes on removes one queue element, and elements are added
\* to the queue only by an accepted merge.  fit is sequential code, so the
\* loop ends if every iteration either leaves it or lowers Measure.
C4_Termination ==
    /\ [](Running => merges <= (IF nodeCount = 0 THEN 0 ELSE nodeCount - 1))
    /\ [](Running => liveCount = nodeCount - merges)
    /\ [][Accepts =>
            /\ Len(cm'.commDegree) = Len(cm.commDegree) - 1
            /\ Cardinality(NotInvolving(heap', cm.nextCommId)) = Len(heap) - 1]_vars
    /\ [][pc = "loop" /\ ~Accepts =>
            /\ Len(heap') \in {Len(heap), Len(heap) - 1}
            /\ pc' = "loop" => Len(heap') = Len(heap) - 1]_vars
    /\ [][pc = "loop" => pc' = "done" \/ (pc' = "loop" /\ Measure' < Measure)]_vars

C4_Witness == pc = "done" /\ nodeCount >= 3 /\ merges = nodeCount - 1

\* the all-singleton partition of n nodes as extractCommunities lists it
Singletons(n) == [i \in 1..n |-> <<i - 1>>]

\* C5: the trajectory returned by any call of fit, a second or later call on
\* the same instance included, is one entry for that call's all-singleton
\* partition followed by one entry per merge accepted during that call.
C5_TrajectoryOfThisCall ==
    pc = "done" =>
        /\ Len(result.modularityHistory) = 1 + merges
        /\ result.modularityHistory[1].communities = Singletons(nodeCount)

\* C6: the communities returned are the partition of the entry with the
\* highest score among all entries of the returned trajectory, the earliest
\* such entry on ties; the full trajectory is returned alongside.  An entry
\* whose score is NaN has no score to compare.
C6_BestIsHighestEarliest ==
    pc = "done" =>
        /\ result.modularityHistory = history
        /\ \E i \in 1..Len(history) :
              /\ result.communities = history[i].communities
              /\ \A j \in 1..Len(history) :
                    IsNaN(history[j].q) \/ NumLe(history[j].q, history[i].q)
              /\ \A j \in 1..(i - 1) :
                    IsNaN(history[j].q) \/ NumLt(history[j].q, history[i].q)

Min(a, b) == IF a < b THEN a ELSE b

\* C7: with target t, fit pops no candidate and performs no merge in a state
\* where the number of live communities is <= t; so every trajectory entry of
\* an n-node run has at least min(n, t) communities when t >= 1.
C7_TargetRespected ==
    /\ [][pc = "loop" /\ liveCount <= desired =>
            heap' = heap /\ cm' = cm /\ history' = history]_vars
    /\ [](Running /\ desired >= 1 =>
            \A k \in 1..RunLength :
                Len(RunEntry(k).communities) >= Min(nodeCount, desired))

C7_Witness ==
    /\ pc = "done"
    /\ stop = "target"
    /\ desired = 2
    /\ merges >= 1
    /\ Len(heap) > 0

\* whether the matrix joins nodes i and j (0-based) in either direction
Joined(matrix, i, j) == IsNonZero(matrix, i, j) \/ IsNonZero(matrix, j, i)

\* the edges of the input graph between communities a and b, counted on the
\* matrix: unordered pairs of distinct nodes joined by a non-zero entry
TrueCrossing(a, b) ==
    Cardinality({p \in UpperPairs(nodeCount) :
        /\ Joined(adjacencyMatrix, p[1] - 1, p[2] - 1)
        /\ {cm.nodeToComm[p[1]], cm.nodeToComm[p[2]]} = {a, b}})

\* C8: when the loop ends on a popped gain <= 0 or on an empty queue, no two
\* distinct live communities have a strictly positive gain computed from
\* their current aggregate degrees and their true crossing-edge count.
C8_NoImprovingMergeLeft ==
    pc = "done" /\ stop \in {"empty", "gain"} =>
        \A a, b \in MapKeys(cm.commDegree) :
            a # b => ~NumGt(deltaQ(cm, a, b, TrueCrossing(a, b)), FromInt(0))

C8_Witness ==
    /\ pc = "done"
    /\ stop = "gain"
    /\ merges >= 2
    /\ liveCount >= 2
    /\ \E a, b \in MapKeys(cm.commDegree) : a # b /\ TrueCrossing(a, b) > 0

\* symmetric 0/1 matrix with a zero diagonal
IsSimpleGraph(matrix) ==
    \A i, j \in 1..Len(matrix) :
        /\ Len(matrix[i]) = Len(matrix)
        /\ matrix[i][j] \in {0, 1}
        /\ matrix[i][j] = matrix[j][i]
        /\ matrix[i][i] = 0

\* m: the number of edges of a simple graph
TrueEdges(matrix) ==
    Cardinality({p \in UpperPairs(Len(matrix)) : matrix[p[1]][p[2]] # 0})

RECURSIVE SumNum(_)
SumNum(s) == IF s = <<>> THEN FromInt(0) ELSE NumAdd(Head(s), SumNum(Tail(s)))

Square(a) == NumMul(a, a)

\* Q = sum over communities c of internalEdges(c)/m - (degree(c)/(2m))^2
Modularity(matrix, communities) ==
    LET m == TrueEdges(matrix)
        members(c) == {communities[c][p] : p \in 1..Len(communities[c])}
        internal(c) == Cardinality({p \in UpperPairs(Len(matrix)) :
                           /\ matrix[p[1]][p[2]] # 0
                           /\ p[1] - 1 \in members(c)
                           /\ p[2] - 1 \in members(c)})
        degree(c) == SumOver(members(c),
                             [i \in members(c) |-> NodeDegree(matrix, i)])
    IN  SumNum([c \in 1..Len(communities) |->
                  NumSub(Ratio(internal(c), m), Square(Ratio(degree(c), 2 * m)))])

\* -sum over nodes of (degree/(2m))^2
ClosedFormInitial(matrix) ==
    NumNeg(SumNum([i \in 1..Len(matrix) |->
                     Square(Ratio(NodeDegree(matrix, i - 1), 2 * TrueEdges(matrix)))]))

SimpleWithEdges == IsSimpleGraph(adjacencyMatrix) /\ TrueEdges(adjacencyMatrix) > 0

C10_EdgelessScoresZero ==
    Running /\ cm.totalEdges = FromInt(0) =>
        /\ RunEntry(1).q = FromInt(0)
        /\ \A k \in 1..Len(history) : ~IsNaN(history[k].q)

\* every row has as many entries as the matrix has rows
IsSquare(matrix) == \A i \in 1..Len(matrix) : Len(matrix[i]) = Len(matrix)

IsAllZero(matrix) ==
    IsSquare(matrix) /\ \A i, j \in 1..Len(matrix) : matrix[i][j] = 0

\* C11: for an all-zero n x n matrix with n >= 1 (n = 5 included) fit seeds
\* an empty queue, performs no merge and returns a trajectory of exactly one
\* entry, the n singleton communities.
C11_EdgelessSingleEntry ==
    Running /\ nodeCount >= 1 /\ IsAllZero(adjacencyMatrix) =>
        /\ heap = <<>>
        /\ candidate = <<>>
        /\ merges = 0
        /\ pc = "done" =>
              /\ Len(result.modularityHistory) = 1
              /\ result.modularityHistory[1].communities = Singletons(nodeCount)

\* What the call itself does on an all-zero matrix: empty queue, no merge,
\* one entry appended, the singletons.  C11 fails only on the entries an
\* earlier call left in this.history.
EdgelessOwnEntry ==
    Running /\ nodeCount >= 1 /\ IsAllZero(adjacencyMatrix) =>
        /\ heap = <<>>
        /\ candidate = <<>>
        /\ merges = 0
        /\ RunLength = 1
        /\ RunEntry(1).communities = Singletons(nodeCount)
        /\ pc = "done" => stop = "empty"

EdgelessFiveDone == pc = "done" /\ adjacencyMatrix = ZeroMatrix(5)

\* C12: fit on a matrix with no rows completes and returns a result whose
\* communities collection is empty.
C12_EmptyMatrixNoCommunities ==
    pc = "done" /\ nodeCount = 0 => result.communities = <<>>

\* What the call itself does on a matrix with no rows: it ends on the empty
\* queue and the one entry it appends has no communities.  C12 fails only
\* when an entry of an earlier call is picked as the best.
EmptyMatrixOwnEntry ==
    Running /\ nodeCount = 0 =>
        /\ heap = <<>>
        /\ RunLength = 1
        /\ RunEntry(1).communities = <<>>
        /\ RunEntry(1).q = FromInt(0)
        /\ pc = "done" => stop = "empty"

EmptyMatrixDone == pc = "done" /\ nodeCount = 0

\* the entries of row i (0-based) that exist, lie in the first n columns and
\* are not zero
PresentNonZero(matrix, i) ==
    {j \in 1..Min(Len(matrix[i + 1]), Len(matrix)) : matrix[i + 1][j] # 0}

\* C13: fit on a matrix that is not square completes and returns a result
\* with no communities; entries missing from a short row do not count as
\* edges, so no node gets a degree from them.
C13_NonSquareNoCommunities ==
    Running /\ ~IsSquare(adjacencyMatrix) =>
        /\ pc = "done" => result.communities = <<>>
        /\ merges = 0 =>
              \A i \in 0..(nodeCount - 1) :
                  MapGet(cm.commDegree, i)
                    = Cardinality(PresentNonZero(adjacencyMatrix, i))

\* a call on a matrix whose rows are all empty has returned
NonSquareDone ==
    /\ pc = "done"
    /\ nodeCount = 2
    /\ \A i \in 1..nodeCount : adjacencyMatrix[i] = <<>>

\* the nodes reached from the nodes of S along non-zero entries, either way
RECURSIVE Reach(_, _)
Reach(matrix, S) ==
    LET next == S \cup {j \in 0..(Len(matrix) - 1) :
                           \E i \in S : i # j /\ Joined(matrix, i, j)}
    IN  IF next = S THEN S ELSE Reach(matrix, next)

\* the connected component of node i
Component(matrix, i) == Reach(matrix, {i})

\* a community lies within one connected component
WithinOneComponent(matrix, community) ==
    \A p, q \in 1..Len(community) :
        community[q] \in Component(matrix, community[p])

\* a partition as the set of its communities' node sets
AsSets(communities) ==
    {{communities[c][p] : p \in 1..Len(communities[c])} : c \in 1..Len(communities)}

\* C14: fit accepts no merge of two communities without a crossing edge, so
\* every community of every trajectory entry lies within one connected
\* component of the input graph; on two disjoint triangles with the default
\* target the run ends with exactly 2 communities, one per triangle.
C14_NoMergeAcrossComponents ==
    /\ [][Accepts =>
            TrueCrossing(Head(candidate').commA, Head(candidate').commB) > 0]_vars
    /\ [](Running =>
            \A k \in 1..RunLength :
                \A c \in 1..Len(RunEntry(k).communities) :
                    WithinOneComponent(adjacencyMatrix, RunEntry(k).communities[c]))
    /\ [](pc = "done" /\ adjacencyMatrix = TwoTriangles
            /\ options.numberOfCommunities = {} =>
                /\ liveCount = 2
                /\ merges = 4
                /\ AsSets(RunEntry(RunLength).communities) = {{0, 1, 2}, {3, 4, 5}}
                /\ AsSets(result.communities) = {{0, 1, 2}, {3, 4, 5}})

C14_Witness ==
    /\ pc = "done"
    /\ adjacencyMatrix = TwoTriangles
    /\ options.numberOfCommunities = {}
    /\ merges = 4

RECURSIVE seedQueue(_, _, _, _)
seedQueue(mgr, entries, queue, insertedPairs) ==
    IF entries = <<>> THEN queue
    ELSE LET e == Head(entries)
             key == makeKey(e.comm, e.nbr)
         IN  IF key \in insertedPairs
             THEN seedQueue(mgr, Tail(entries), queue, insertedPairs)
             ELSE seedQueue(mgr, Tail(entries),
                            Append(queue, [deltaQ |-> deltaQ(mgr, e.comm, e.nbr, e.count),
                                           commA |-> e.comm, commB |-> e.nbr]),
                            insertedPairs \cup {key})

\* the candidates a merge adds: one per neighbor of the merged community
newCandidates(mgr, mergedId, entries) ==
    [i \in 1..Len(entries) |->
        [deltaQ |-> deltaQ(mgr, mergedId, entries[i].k, entries[i].v),
         commA |-> mergedId, commB |-> entries[i].k]]

\* two candidates of the queue have the same gain
HasTie(queue) ==
    \E i, j \in 1..Len(queue) : i # j /\ queue[i].deltaQ = queue[j].deltaQ

\* the position of the element of greatest gain of a queue without ties
MaxPosition(queue) ==
    CHOOSE i \in 1..Len(queue) :
        \A j \in 1..Len(queue) : j = i \/ NumLt(queue[j].deltaQ, queue[i].deltaQ)

RemoveAt(queue, i) == SubSeq(queue, 1, i - 1) \o SubSeq(queue, i + 1, Len(queue))

\* the loop of fit over the abstract queue; it gives up, clearing tieFree, as
\* soon as the queue holds two candidates of equal gain
RECURSIVE AbstractLoop(_, _)
AbstractLoop(st, target) ==
    IF Len(st.queue) = 0 THEN st
    ELSE IF HasTie(st.queue) THEN [st EXCEPT !.tieFree = FALSE]
    ELSE IF Len(st.cm.commDegree) <= target THEN st
    ELSE LET i == MaxPosition(st.queue)
             c == st.queue[i]
             rest == RemoveAt(st.queue, i)
         IN  IF NumLe(c.deltaQ, FromInt(0)) THEN [st EXCEPT !.queue = rest]
             ELSE IF ~MapHas(st.cm.commDegree, c.commA)
                       \/ ~MapHas(st.cm.commDegree, c.commB)
                  THEN AbstractLoop([st EXCEPT !.queue = rest], target)
             ELSE LET mergedId == st.cm.nextCommId
                      cm1 == mergeCommunities(st.cm, c.commA, c.commB)
                      q1 == NumAdd(st.q, c.deltaQ)
                      ce1 == rekeyCommEdges(st.commEdges, c, mergedId)
                  IN  AbstractLoop(
                          [cm |-> cm1,
                           commEdges |-> ce1,
                           queue |-> rest \o newCandidates(cm1, mergedId,
                                                           MapGet(ce1, mergedId)),
                           q |-> q1,
                           trajectory |-> Append(st.trajectory,
                                             [q |-> q1,
                                              communities |-> extractCommunities(cm1)]),
                           accepted |-> Append(st.accepted, <<c.commA, c.commB>>),
                           tieFree |-> TRUE],
                          target)

\* a whole call of fit on a fresh trajectory, over the abstract queue
AbstractRun(matrix, target) ==
    LET cm0 == NewCommunityManager(Len(matrix), degreesOf(matrix), edgeCountOf(matrix))
        ce0 == buildCommEdges(cm0, matrix)
        q0 == computeInitialModularity(cm0)
    IN  AbstractLoop(
            [cm |-> cm0,
             commEdges |-> ce0,
             queue |-> seedQueue(cm0, commEdgeEntries(ce0), <<>>, {}),
             q |-> q0,
             trajectory |-> <<[q |-> q0, communities |-> extractCommunities(cm0)]>>,
             accepted |-> <<>>,
             tieFree |-> TRUE],
            target)

\* the entries the current call appended
RunTrajectory == SubSeq(history, historyBase + 1, Len(history))

\* the run over the abstract queue never met two candidates of equal gain
TieFree == AbstractRun(adjacencyMatrix, desired).tieFree

\* C16: on a graph for which the queue never holds two candidates of equal
\* gain, fit with the binary MaxHeap accepts the same merges in the same order
\* and reaches the same final best score as fit over the abstract queue.
C16_HeapIndependence ==
    pc = "done" /\ TieFree =>
        LET a == AbstractRun(adjacencyMatrix, desired)
        IN  /\ RunTrajectory = a.trajectory
            /\ bestOf(RunTrajectory).q = bestOf(a.trajectory).q
            /\ cm = a.cm
            /\ commEdges = a.commEdges
            /\ Len(a.accepted) = merges

C16_Witness ==
    /\ pc = "done"
    /\ TieFree
    /\ merges >= 2
    /\ Len(AbstractRun(adjacencyMatrix, desired).queue) >= 1

\* square, symmetric, entries non-negative integers
IsSymmetricMultigraph(matrix) ==
    /\ IsSquare(matrix)
    /\ \A i, j \in 1..Len(matrix) : matrix[i][j] >= 0 /\ matrix[i][j] = matrix[j][i]

\* the sum of row i (0-based) of the matrix
RowSum(matrix, i) == SumSeq(matrix[i + 1])

\* C17: for a symmetric matrix of non-negative edge multiplicities the degree
\* fit gives each node is the sum of the node's row, and the total edge count
\* m is half the sum of those degrees.
C17_DegreesAreRowSums ==
    Running /\ merges = 0 /\ IsSymmetricMultigraph(adjacencyMatrix) =>
        /\ \A i \in 0..(nodeCount - 1) :
              MapGet(cm.commDegree, i) = RowSum(adjacencyMatrix, i)
        /\ cm.totalEdges
             = Ratio(SumSeq([i \in 1..nodeCount |-> RowSum(adjacencyMatrix, i - 1)]), 2)

\* What the code computes: the degree of a node is the number of non-zero
\* entries of its row, and m is half the sum of those counts.  It agrees with
\* C17 on matrices whose entries are 0 or 1.
DegreesAreNonZeroCounts ==
    Running /\ merges = 0 =>
        /\ \A i \in 0..(nodeCount - 1) :
              MapGet(cm.commDegree, i) = NodeDegree(adjacencyMatrix, i)
        /\ cm.totalEdges
             = Ratio(SumSeq([i \in 1..nodeCount |-> NodeDegree(adjacencyMatrix, i - 1)]), 2)

DoubleEdgeFitted ==
    Running /\ adjacencyMatrix = << <<0, 2>>, <<2, 0>> >>

\* the distinct node values of an edge list
NodeValues(edges) == UNION {{edges[e][1], edges[e][2]} : e \in 1..Len(edges)}

\* C18: the matrix fromEdgeList builds is n x n for the n distinct node values
\* of the edge list and symmetric: for every listed edge [s, t] the entries
\* (index(s), index(t)) and (index(t), index(s)) are both non-zero.
C18_EdgeListMatrixSymmetric ==
    LET matrix == built.matrix
        index(node) == indexOf(built.nodeMapping, node) + 1
    IN  /\ Len(matrix) = Cardinality(NodeValues(edgeList))
        /\ IsSquare(matrix)
        /\ \A i, j \in 1..Len(matrix) : matrix[i][j] = matrix[j][i]
        /\ \A e \in 1..Len(edgeList) :
              /\ matrix[index(edgeList[e][1])][index(edgeList[e][2])] # 0
              /\ matrix[index(edgeList[e][2])][index(edgeList[e][1])] # 0

\* What the code builds: the n x n matrix of the directed edges, entry
\* (index(s), index(t)) being 1 exactly when [s, t] is listed; the legend
\* lists each node value once.
EdgeListMatrixDirected ==
    LET matrix == built.matrix
        nodes == built.nodeMapping
    IN  /\ Len(matrix) = Cardinality(NodeValues(edgeList))
        /\ IsSquare(matrix)
        /\ Range(nodes) = NodeValues(edgeList)
        /\ Len(nodes) = Cardinality(NodeValues(edgeList))
        /\ \A i, j \in 1..Len(matrix) :
              matrix[i][j] = IF <<nodes[i], nodes[j]>> \in Range(edgeList) THEN 1 ELSE 0

OneWayEdgeBuilt ==
    /\ pc = "built"
    /\ edgeList = << <<2, 1>> >>
    /\ built.matrix = << <<0, 1>>, <<0, 0>> >>

\* the ids of the live communities of a manager
LiveIds(mgr) == MapKeys(mgr.commDegree)

\* the step from manager before to manager after is what the claim says of
\* mergeCommunities(a, b) returning newId
MergePostcondition(before, after, a, b, newId) ==
    /\ newId \notin LiveIds(before)
    /\ newId \notin Range(before.nodeToComm)
    /\ LiveIds(after) = (LiveIds(before) \ {a, b}) \cup {newId}
    /\ MapGet(after.commDegree, newId)
         = MapGet(before.commDegree, a) + MapGet(before.commDegree, b)
    /\ \A c \in LiveIds(before) \ {a, b} :
          MapGet(after.commDegree, c) = MapGet(before.commDegree, c)
    /\ Len(after.nodeToComm) = Len(before.nodeToComm)
    /\ \A i \in 1..Len(before.nodeToComm) :
          after.nodeToComm[i] = IF before.nodeToComm[i] \in {a, b} THEN newId
                                ELSE before.nodeToComm[i]
    /\ Len(after.commDegree) = Cardinality(LiveIds(after))
    /\ Cardinality(LiveIds(after)) = Cardinality(LiveIds(before)) - 1
    /\ after.totalEdges = before.totalEdges

\* C19: in any manager state reached by merges, mergeCommunities(a, b) with
\* a # b both live returns an id that was not live, gives it the degree
\* degree(a) + degree(b), removes a and b from the degree table, moves exactly
\* the nodes of a and b to the new id, leaves every other node and degree as
\* it was, and lowers the live-community count by exactly one.
C19_MergePostcondition ==
    /\ [][pc = "manager" =>
            \A a, b \in LiveIds(cm) :
                a # b /\ cm' = mergeCommunities(cm, a, b) =>
                    MergePostcondition(cm, cm', a, b, cm.nextCommId)]_vars
    /\ [][pc = "manager" /\ cm' # cm =>
            \E a, b \in LiveIds(cm) :
                a # b /\ MergePostcondition(cm, cm', a, b, cm.nextCommId)]_vars

C19_Witness ==
    /\ pc = "manager"
    /\ Len(cm.nodeToComm) = 3
    /\ cm.nextCommId = 5
    /\ \E i \in 1..Len(cm.commDegree) : cm.commDegree[i].v >= 3

\* the ids that occur as a key or as a neighbor entry of the community
\* adjacency
CommEdgeIds ==
    MapKeys(commEdges) \cup UNION {MapKeys(commEdges[i].v) : i \in 1..Len(commEdges)}

\* the ids handed out so far in a run that has appended k entries: the n
\* initial ones and one per accepted merge
UsedIds == 0..(nodeCount + RunLength - 2)

\* the ids consumed by a merge
DeadIds == UsedIds \ LiveIds(cm)

\* C20: community ids are never reused.  The k-th accepted merge of a run on
\* n nodes creates id n + k - 1, an id no structure held before; an id
\* consumed by a merge never again occurs as a value of the node-to-community
\* map, as a key of the degree table, or as a key or neighbor entry of the
\* community adjacency; every node maps to an id of the degree table.
C20_IdsNeverReused ==
    /\ [][Accepts =>
            LET newId == nodeCount + RunLength - 1
            IN  /\ LiveIds(cm') \ LiveIds(cm) = {newId}
                /\ newId \notin UsedIds
                /\ newId \notin Range(cm.nodeToComm) \cup CommEdgeIds
                /\ \A i \in 1..Len(heap) : newId \notin {heap[i].commA, heap[i].commB}]_vars
    /\ [][pc = "loop" => \A id \in DeadIds : id \notin LiveIds(cm')]_vars
    /\ [](Running =>
            /\ LiveIds(cm) \subseteq UsedIds
            /\ Len(cm.commDegree) = Cardinality(LiveIds(cm))
            /\ Range(cm.nodeToComm) \subseteq LiveIds(cm)
            /\ CommEdgeIds \subseteq LiveIds(cm)
            /\ Len(commEdges) = Cardinality(MapKeys(commEdges)))

C20_Witness ==
    /\ pc = "loop"
    /\ merges >= 2
    /\ Cardinality(DeadIds) >= 4
    /\ \E i \in 1..Len(commEdges) : Len(commEdges[i].v) >= 1
    /\ \E i \in 1..Len(heap) : heap[i].commA \in DeadIds \/ heap[i].commB \in DeadIds

\* the count commEdges stores from community a to community b, 0 when absent
StoredCrossing(a, b) == MapGetOr(MapGetOr(commEdges, a, <<>>), b, 0)

\* C21: at every test of the while loop and after the loop, for every two
\* distinct live communities the count commEdges stores from one to the
\* other (absent = 0) is the number of edges of the input graph with one
\* endpoint in each, the stored counts are symmetric, and no community has
\* an entry for itself.
C21_CommEdgesIsCoarsening ==
    Running =>
        /\ \A a, b \in MapKeys(cm.commDegree) :
              a # b => /\ StoredCrossing(a, b) = TrueCrossing(a, b)
                       /\ StoredCrossing(a, b) = StoredCrossing(b, a)
        /\ \A i \in 1..Len(commEdges) : ~MapHas(commEdges[i].v, commEdges[i].k)

\* two merges were accepted and a stored count is a sum of several edges
C21_Witness ==
    /\ Running
    /\ merges >= 2
    /\ \E a, b \in MapKeys(cm.commDegree) :
          a # b /\ StoredCrossing(a, b) >= 2 /\ StoredCrossing(a, b) = TrueCrossing(a, b)

\* how many times an item is stored in an array of the heap
Stored(items, item) == Cardinality({i \in 1..Len(items) : items[i] = item})

HeapInserted == pc = "heap" /\ heapOps'.inserts = heapOps.inserts + 1

HeapExtracted == pc = "heap" /\ heapOps'.extractions = heapOps.extractions + 1

\* C22: on a MaxHeap used on its own, through any sequence of insert and
\* extractMax calls, extractMax on a non-empty heap returns a stored element
\* whose gain is >= the gain of every element still stored, removes exactly
\* that element and keeps every other one as often as it was stored; insert
\* adds one occurrence of its item (an item inserted twice is stored twice);
\* and size() is the number of inserts minus the number of extractions that
\* returned an element.
C22_ExtractMaxReturnsMaximum ==
    /\ [](pc = "heap" => size(heap) = heapOps.inserts - heapOps.extractions)
    /\ [][HeapExtracted =>
            /\ Len(candidate') = 1
            /\ Stored(heap, Head(candidate')) >= 1
            /\ \A i \in 1..Len(heap') : NumLe(heap'[i].deltaQ, Head(candidate').deltaQ)
            /\ \A item \in HeapItems :
                  Stored(heap', item) =
                      Stored(heap, item) - (IF item = Head(candidate') THEN 1 ELSE 0)
            /\ \A i \in 1..Len(heap') : heap'[i] \in HeapItems]_vars
    /\ [][HeapInserted =>
            \E added \in HeapItems : \A item \in HeapItems :
                Stored(heap', item) =
                    Stored(heap, item) + (IF item = added THEN 1 ELSE 0)]_vars

\* after an extraction the heap still holds an item twice, next to a
\* smaller one, and the element returned last is not smaller than any of them
C22_Witness ==
    /\ pc = "heap"
    /\ heapOps.extractions >= 1
    /\ heapOps.inserts = MaxInserts
    /\ Len(candidate) = 1
    /\ \E item \in HeapItems : Stored(heap, item) = 2
    /\ \E i, j \in 1..Len(heap) : NumLt(heap[i].deltaQ, heap[j].deltaQ)

HeapMissed == pc = "heap" /\ heapOps'.misses = heapOps.misses + 1

\* C23: extractMax on an empty MaxHeap returns undefined and leaves the heap
\* empty, and the heap stays usable: the insert that follows stores its item
\* and the extractMax after it returns that item and empties the heap again.
C23_ExtractMaxOnEmpty ==
    /\ [][HeapMissed =>
            /\ size(heap) = 0
            /\ candidate' = <<>>
            /\ size(heap') = 0]_vars
    /\ [][HeapInserted /\ heapOps.misses >= 1 /\ size(heap) = 0 =>
            size(heap') = 1 /\ heap'[1] \in HeapItems]_vars
    /\ [][HeapExtracted /\ heapOps.misses >= 1 /\ size(heap) = 1 =>
            candidate' = <<heap[1]>> /\ size(heap') = 0]_vars

\* extractMax on the new heap returned undefined, then one item was inserted
\* and extracted
C23_Witness ==
    /\ pc = "heap"
    /\ heapOps = [inserts |-> 1, extractions |-> 1, misses |-> 1]
    /\ Len(candidate) = 1
    /\ size(heap) = 0

\* a step of the loop that extracts a candidate from the queue
Pops == CanPop /\ Len(candidate') = 1

\* C24: every candidate popped while both its endpoints are live carries
\* the gain the formula yields at that moment from the current aggregate
\* degrees and the current crossing-edge count of its two communities (the
\* count commEdges stores, which is the count on the input graph).
C24_LivePoppedGainIsCurrent ==
    [][Pops =>
        LET c == Head(candidate')
        IN  IsLive(c.commA) /\ IsLive(c.commB) =>
                /\ c.commA # c.commB
                /\ StoredCrossing(c.commA, c.commB) = TrueCrossing(c.commA, c.commB)
                /\ NumEq(c.deltaQ,
                         deltaQ(cm, c.commA, c.commB,
                                StoredCrossing(c.commA, c.commB)))]_vars

\* the candidate popped last was accepted as the second or a later merge, one
\* of its endpoints was itself created by a merge, and its gain is the step
\* between the last two trajectory entries
C24_Witness ==
    /\ Running
    /\ merges >= 2
    /\ Len(candidate) = 1
    /\ Head(candidate).commA >= nodeCount
    /\ ~IsLive(Head(candidate).commA) /\ ~IsLive(Head(candidate).commB)
    /\ NumEq(NumSub(RunEntry(merges + 1).q, RunEntry(merges).q), Head(candidate).deltaQ)

\* an endpoint of candidate c is not a key of commDegree
HasDeadEndpoint(c) ==
    ~MapHas(cm.commDegree, c.commA) \/ ~MapHas(cm.commDegree, c.commB)

\* C25: a step that pops a candidate of positive gain with an endpoint that
\* is no longer live changes the queue only, which loses exactly the popped
\* entry: nodeToComm, the degree table, nextCommId, commEdges, the running
\* score and the trajectory stay as they were, nothing is returned, and the
\* loop goes on to its next test.
C25_StalePopChangesQueueOnly ==
    [][Pops /\ NumGt(Head(candidate').deltaQ, FromInt(0))
            /\ HasDeadEndpoint(Head(candidate')) =>
        /\ cm' = cm
        /\ commEdges' = commEdges
        /\ currentQ' = currentQ
        /\ history' = history
        /\ result' = result
        /\ pc' = "loop"
        /\ Len(heap') = Len(heap) - 1
        /\ \A i \in 1..Len(heap) :
              Stored(heap', heap[i]) =
                  Stored(heap, heap[i]) - (IF heap[i] = Head(candidate') THEN 1 ELSE 0)]_vars

\* the candidate popped last joins two nodes, has a positive gain and a dead
\* endpoint, and was not merged: no group of the last entry is made of its
\* two nodes
C25_Witness ==
    /\ pc = "loop"
    /\ merges >= 1
    /\ Len(candidate) = 1
    /\ NumGt(Head(candidate).deltaQ, FromInt(0))
    /\ HasDeadEndpoint(Head(candidate))
    /\ Head(candidate).commA < nodeCount /\ Head(candidate).commB < nodeCount
    /\ LET groups == RunEntry(merges + 1).communities
       IN  \A i \in 1..Len(groups) :
              {groups[i][j] : j \in 1..Len(groups[i])}
                  # {Head(candidate).commA, Head(candidate).commB}

\* C26: whenever a merge of two communities is accepted, its gain is >= the
\* gain, computed at that moment from the aggregate degrees and the crossing
\* edges on the input graph, of every other pair of distinct live
\* communities, pairs without a crossing edge included.
C26_AcceptedMergeIsGreedy ==
    [][Accepts =>
        \A a, b \in MapKeys(cm.commDegree) :
            a # b /\ {a, b} # {Head(candidate').commA, Head(candidate').commB} =>
                NumLe(deltaQ(cm, a, b, TrueCrossing(a, b)), AcceptedGain)]_vars

\* a second or later merge was accepted while other pairs of live
\* communities, one of them joined by crossing edges, stood by
C26_Witness ==
    /\ Running
    /\ merges >= 2
    /\ liveCount >= 3
    /\ Len(candidate) = 1
    /\ ~HasDeadEndpoint([commA |-> cm.nextCommId - 1, commB |-> cm.nextCommId - 1])
    /\ NumEq(NumAdd(RunEntry(merges).q, Head(candidate).deltaQ), RunEntry(merges + 1).q)
    /\ \E a, b \in MapKeys(cm.commDegree) \ {cm.nextCommId - 1} :
          a # b /\ TrueCrossing(a, b) > 0

\* the edges of the input graph: unordered pairs of distinct nodes (numbered
\* from 0) joined by a non-zero entry
InputEdges ==
    {{p[1] - 1, p[2] - 1} : p \in
        {q \in UpperPairs(nodeCount) : Joined(adjacencyMatrix, q[1] - 1, q[2] - 1)}}

\* the unordered pair of ids of a candidate
PairOf(c) == {c.commA, c.commB}

Seeded == pc = "loop" /\ Len(candidate) = 0

\* C27: right after the seeding, before the first pop, the queue holds one
\* candidate for every edge of the input graph and no other candidate, each
\* with the gain of merging the two singleton communities of its nodes.
C27_SeededQueueIsEdgeSet ==
    Seeded =>
        /\ \A e \in InputEdges :
              Cardinality({i \in 1..Len(heap) : PairOf(heap[i]) = e}) = 1
        /\ \A i \in 1..Len(heap) :
              /\ PairOf(heap[i]) \in InputEdges
              /\ NumEq(heap[i].deltaQ,
                       deltaQ(cm, heap[i].commA, heap[i].commB,
                              TrueCrossing(heap[i].commA, heap[i].commB)))
        /\ \A node \in 1..nodeCount : cm.nodeToComm[node] = node - 1

\* a graph of three or more edges, one of them between nodes of different
\* degrees, was seeded
C27_Witness ==
    /\ Seeded
    /\ Len(heap) >= 3
    /\ Cardinality(InputEdges) = Len(heap)
    /\ \E i, j \in 1..Len(heap) : ~NumEq(heap[i].deltaQ, heap[j].deltaQ)

\* the positions of a heap array whose candidate joins ids a and b
EntriesFor(items, a, b) == {i \in 1..Len(items) : PairOf(items[i]) = {a, b}}

\* C28: an accepted merge creating community N inserts exactly one candidate
\* {N, X} for every live community X that has a crossing edge to N and no
\* candidate for any other pair, and keeps every queued candidate but the
\* popped one; and the queue never holds two candidates for the same
\* unordered pair of community ids.
C28_OneCandidatePerNeighbor ==
    /\ [](Running =>
            \A i, j \in 1..Len(heap) : i # j => PairOf(heap[i]) # PairOf(heap[j]))
    /\ [][Accepts =>
            \E mergedId \in {cm.nextCommId} :
                /\ \A i \in 1..Len(heap) : mergedId \notin PairOf(heap[i])
                /\ \A i \in 1..Len(heap) :
                      Stored(heap', heap[i]) =
                          Stored(heap, heap[i])
                              - (IF heap[i] = Head(candidate') THEN 1 ELSE 0)
                /\ \A i \in 1..Len(heap') :
                      \/ Stored(heap, heap'[i]) >= 1
                      \/ /\ heap'[i].commA = mergedId
                         /\ heap'[i].commB \in MapKeys(cm'.commDegree) \ {mergedId}
                /\ \A x \in MapKeys(cm'.commDegree) \ {mergedId} :
                      Cardinality(EntriesFor(heap', mergedId, x)) =
                          IF (TrueCrossing(mergedId, x))' >= 1 THEN 1 ELSE 0]_vars

\* the newest community has one candidate towards a neighbor it shares two
\* edges with, and none towards a live community it shares no edge with
C28_Witness ==
    /\ Running
    /\ merges >= 1
    /\ \E x, z \in MapKeys(cm.commDegree) \ {cm.nextCommId - 1} :
          /\ Cardinality(EntriesFor(heap, cm.nextCommId - 1, x)) = 1
          /\ TrueCrossing(cm.nextCommId - 1, x) >= 2
          /\ EntriesFor(heap, cm.nextCommId - 1, z) = {}
          /\ TrueCrossing(cm.nextCommId - 1, z) = 0

\* ids a and b are distinct keys of the commDegree of manager mgr, so that
\* neither degree lookup falls back to 0
DistinctLive(mgr, a, b) ==
    a # b /\ MapHas(mgr.commDegree, a) /\ MapHas(mgr.commDegree, b)

\* C29: fit calls deltaQ and mergeCommunities only with two distinct ids
\* that are live at the time of the call. deltaQ is called once per seeded
\* candidate, on the new manager, and once per entry of newNeighbors, on the
\* manager after the merge; mergeCommunities is called on the endpoints of
\* the accepted candidate.
C29_CallsOnDistinctLiveIds ==
    /\ [](Seeded =>
            \A i \in 1..Len(heap) : DistinctLive(cm, heap[i].commA, heap[i].commB))
    /\ [][Accepts =>
            /\ DistinctLive(cm, Head(candidate').commA, Head(candidate').commB)
            /\ \A i \in 1..Len(MapGet(commEdges', cm.nextCommId)) :
                  DistinctLive(cm', cm.nextCommId,
                               MapGet(commEdges', cm.nextCommId)[i].k)]_vars

\* after two merges the newest community has neighbors, for which deltaQ was
\* called, while the queue holds candidates of dead communities
C29_Witness ==
    /\ Running
    /\ merges >= 2
    /\ MapHas(commEdges, cm.nextCommId - 1)
    /\ Len(MapGet(commEdges, cm.nextCommId - 1)) >= 1
    /\ \E i \in 1..Len(heap) : HasDeadEndpoint(heap[i])

\* C30: the trajectory is append-only. No step of the loop (accepted merge
\* with its re-keying, stale pop, or exit) changes the score or the
\* partition of an entry already appended; a step adds at most one entry, at
\* the end.
C30_TrajectoryAppendOnly ==
    [][Running =>
        /\ Len(history') \in {Len(history), Len(history) + 1}
        /\ \A k \in 1..Len(history) : history'[k] = history[k]]_vars

\* a run that made two merges has ended: its first entry still is the
\* partition into singletons with the initial score, its second entry the
\* partition after the first merge, and the third has another score
C30_Witness ==
    /\ pc = "done"
    /\ merges >= 2
    /\ Len(RunEntry(1).communities) = nodeCount
    /\ NumEq(RunEntry(1).q, computeInitialModularity(
           NewCommunityManager(nodeCount, degreesOf(adjacencyMatrix),
                               edgeCountOf(adjacencyMatrix))))
    /\ Len(RunEntry(2).communities) = nodeCount - 1
    /\ Len(RunEntry(3).communities) = nodeCount - 2
    /\ ~NumEq(RunEntry(3).q, RunEntry(2).q)
    /\ result.modularityHistory = history

====
